---- MODULE Spec2Model ----
(***************************************************************************)
(* A model of DbConnection (src/src/DbConnection.cpp): the handle that     *)
(* owns one native PGconn, tracks at most one current DbResult and drives  *)
(* libpq's connect / cancel / drain / copy-in / escape calls.              *)
(*                                                                         *)
(* Every method is one atomic step (the handle is single-threaded and      *)
(* synchronous).  A method is an operator from a context record (the       *)
(* handle's fields, the native connection's state, and the log of native  *)
(* calls, warnings and the error of the running call) to a context record; *)
(* what libpq returns is an input drawn by the action.                     *)
(***************************************************************************)
EXTENDS Naturals, Sequences, FiniteSets, TLC

VARIABLES
  phase,            \* "unborn" | "live" | "failed" | "destroyed" | "crashed"
  pConn_,           \* the PGconn* field: NULL or CONN
  pCurrentResult_,  \* the tracked DbResult*: NULL or a result id
  transacting_,     \* the transacting_ flag
  check_interrupts_,\* the check_interrupts_ flag
  status,           \* PQstatus of the native connection
  encoding,         \* client encoding of the native connection
  allocated,        \* native connections handed out by PQconnectdbParams
  released,         \* native connections freed by PQfinish
  pending,          \* results libpq holds ready for PQgetResult
  complete,         \* pCurrentResult_->complete(), FALSE while nothing is tracked
  last              \* record of the method call that has just returned

vars == <<phase, pConn_, pCurrentResult_, transacting_, check_interrupts_,
          status, encoding, allocated, released, pending, complete, last>>

\* ---- bounds ----
NumResults == 2
MaxPending == 1
MaxCols == 1
MaxRows == 2

\* ---- values ----
NULL == 0
CONN == 1
Results == 1 .. NumResults
CONNECTION_OK == "CONNECTION_OK"
CONNECTION_BAD == "CONNECTION_BAD"
PGRES_COPY_IN == "PGRES_COPY_IN"
PGRES_COMMAND_OK == "PGRES_COMMAND_OK"
PGRES_FATAL_ERROR == "PGRES_FATAL_ERROR"
NA_STRING == "NA_STRING"
\* a non-missing string and what libpq's escaping makes of it
SomeString == "a'b"
EscapedLiteral == "'a''b'"
EscapedIdentifier == "\"a'b\""
\* what PQerrorMessage can hand back
NativeErrors == {"could not connect to server", "server closed the connection"}

\* ---- the context of a running call ----
Native(f, a, r) == [f |-> f, a |-> a, r |-> r]

Call(c, f, a, r) == [c EXCEPT !.calls = Append(@, Native(f, a, r))]

Failed(c) == c.err # <<>>

\* Rcpp::stop(message): the call ends with an exception carrying message
stop(c, message) == [c EXCEPT !.err = <<message>>]

\* Rcpp::warning(message)
warning(c, message) == [c EXCEPT !.warns = Append(@, message)]

Ctx ==
  [pConn |-> pConn_, cur |-> pCurrentResult_, transacting |-> transacting_,
   status |-> status, released |-> released, pending |-> pending,
   check_interrupts |-> check_interrupts_, encoding |-> encoding,
   allocated |-> allocated, complete |-> complete,
   calls |-> <<>>, warns |-> <<>>, err |-> <<>>, ret |-> "void",
   crashed |-> FALSE]

\* ---- libpq, as the calls of this file use it ----
\* PQstatus(conn): CONNECTION_BAD for a null connection
PQstatus(c) ==
  IF c.pConn = NULL THEN CONNECTION_BAD ELSE c.status

\* PQfinish(conn): frees the connection; a null connection is left alone
PQfinish(c) ==
  LET c1 == Call(c, "PQfinish", 0, IF c.pConn = NULL THEN "NULL" ELSE "conn")
  IN  IF c.pConn = NULL THEN c1
      ELSE [c1 EXCEPT !.released = @ + 1, !.pending = 0]

\* PQreset(conn): closes and reopens the channel; `outcome` is the new status
PQreset(c, outcome) ==
  [Call(c, "PQreset", 0, "") EXCEPT !.status = outcome, !.pending = 0]

\* conn_stop(conn, msg): stop("%s: %s", msg, PQerrorMessage(conn))
conn_stop(c, msg, text) ==
  stop(Call(c, "PQerrorMessage", 0, text), msg \o ": " \o text)

\* ---- DbConnection's methods ----
\* check_connection() that resets again when the first reset did not help
check_connection_retries(c, env) ==
  IF c.pConn = NULL THEN stop(c, "Disconnected")
  ELSE
    LET c1 == Call(c, "PQstatus", 0, PQstatus(c))
    IN  IF PQstatus(c1) = CONNECTION_OK THEN c1
        ELSE
          LET c2 == PQreset(c1, env.reset)
              c3 == Call(c2, "PQstatus", 0, PQstatus(c2))
          IN  IF PQstatus(c3) = CONNECTION_OK THEN c3
              ELSE
                LET c4 == PQreset(c3, env.reset)
                    c5 == Call(c4, "PQstatus", 0, PQstatus(c4))
                IN  conn_stop(c5, "Lost connection to database", env.text)

\* check_connection(): env.reset is the status PQreset leaves, env.text the
\* native error text
check_connection(c, env) ==
  IF c.pConn = NULL THEN stop(c, "Disconnected")
  ELSE
    LET c1 == Call(c, "PQstatus", 0, PQstatus(c))
    IN  IF PQstatus(c1) = CONNECTION_OK THEN c1
        ELSE
          LET c2 == PQreset(c1, env.reset)
              c3 == Call(c2, "PQstatus", 0, PQstatus(c2))
          IN  IF PQstatus(c3) = CONNECTION_OK THEN c3
              ELSE conn_stop(c3, "Lost connection to database", env.text)

\* cancel_query() that treats a refused cancel request as an error
cancel_query_fails_on_refusal(c, env) ==
  LET c1 == check_connection(c, env)
  IN  IF Failed(c1) THEN c1
      ELSE
        LET c2 == Call(c1, "PQgetCancel", 0,
                       IF env.getCancel = NULL THEN "NULL" ELSE "cancel")
        IN  IF env.getCancel = NULL
            THEN stop(c2, "Connection error detected via PQgetCancel()")
            ELSE
              LET c3 == Call(c2, "PQcancel", 0,
                             IF env.cancel = 0 THEN "0" ELSE "1")
              IN  IF env.cancel = 0
                  THEN stop(Call(c3, "PQfreeCancel", 0, ""), "errbuf")
                  ELSE Call(c3, "PQfreeCancel", 0, "")

\* cancel_query() that returns after the warning without PQfreeCancel
cancel_query_leaks_handle(c, env) ==
  LET c1 == check_connection(c, env)
  IN  IF Failed(c1) THEN c1
      ELSE
        LET c2 == Call(c1, "PQgetCancel", 0,
                       IF env.getCancel = NULL THEN "NULL" ELSE "cancel")
        IN  IF env.getCancel = NULL
            THEN stop(c2, "Connection error detected via PQgetCancel()")
            ELSE
              LET c3 == Call(c2, "PQcancel", 0,
                             IF env.cancel = 0 THEN "0" ELSE "1")
              IN  IF env.cancel = 0 THEN warning(c3, "errbuf")
                  ELSE Call(c3, "PQfreeCancel", 0, "")

\* cancel_query(): env.getCancel is what PQgetCancel returns (NULL or a
\* handle), env.cancel what PQcancel returns (1 on success, 0 on failure)
cancel_query(c, env) ==
  LET c1 == check_connection(c, env)
  IN  IF Failed(c1) THEN c1
      ELSE
        LET c2 == Call(c1, "PQgetCancel", 0,
                       IF env.getCancel = NULL THEN "NULL" ELSE "cancel")
        IN  IF env.getCancel = NULL
            THEN stop(c2, "Connection error detected via PQgetCancel()")
            ELSE
              LET c3 == Call(c2, "PQcancel", 0,
                             IF env.cancel = 0 THEN "0" ELSE "1")
                  c4 == IF env.cancel = 0 THEN warning(c3, "errbuf") ELSE c3
              IN  Call(c4, "PQfreeCancel", 0, "")

\* finish_query(pConn): PQgetResult / PQclear until PQgetResult returns NULL
RECURSIVE finish_query(_)
finish_query(c) ==
  IF c.pConn # NULL /\ c.pending > 0
  THEN finish_query(
         [Call(Call(c, "PQgetResult", 0, "result"), "PQclear", 0, "result")
            EXCEPT !.pending = @ - 1])
  ELSE Call(c, "PQgetResult", 0, "NULL")

\* cleanup_query() that cancels whether or not the result is complete
cleanup_query_always_cancels(c, env) ==
  LET c1 == IF c.cur # NULL THEN cancel_query(c, env) ELSE c
  IN  IF Failed(c1) THEN c1 ELSE finish_query(c1)

\* cleanup_query()
cleanup_query(c, env) ==
  LET c1 == IF c.cur # NULL /\ ~ c.complete
            THEN cancel_query(c, env) ELSE c
  IN  IF Failed(c1) THEN c1 ELSE finish_query(c1)

ClosingWarning == "Closing open result set, cancelling previous query"

\* set_current_result() that cleans up but keeps the previous pointer
set_current_result_keeps_previous(c, pResult, env) ==
  IF pResult = c.cur THEN c
  ELSE IF c.cur # NULL
       THEN cleanup_query(
              IF pResult # NULL THEN warning(c, ClosingWarning) ELSE c, env)
       ELSE [c EXCEPT !.cur = pResult,
                      !.complete = pResult # NULL /\ env.complete]

\* set_current_result() without the same-pointer test
set_current_result_no_identity_test(c, pResult, env) ==
  LET c1 == IF c.cur # NULL
            THEN cleanup_query(
                   IF pResult # NULL THEN warning(c, ClosingWarning) ELSE c, env)
            ELSE c
  IN  IF Failed(c1) THEN c1
      ELSE [c1 EXCEPT !.cur = pResult,
                      !.complete = pResult # NULL /\ env.complete]

\* set_current_result(pResult): env.complete is pResult->complete() at the
\* time of the call
set_current_result(c, pResult, env) ==
  IF pResult = c.cur THEN c
  ELSE
    LET c1 == IF c.cur # NULL
              THEN cleanup_query(
                     IF pResult # NULL
                     THEN warning(c, ClosingWarning)
                     ELSE c, env)
              ELSE c
    IN  IF Failed(c1) THEN c1
        ELSE [c1 EXCEPT !.cur = pResult,
                        !.complete = pResult # NULL /\ env.complete]

\* reset_current_result() without the same-pointer test
reset_current_result_no_identity_test(c, pResult, env) ==
  LET c1 == cleanup_query(c, env)
  IN  IF Failed(c1) THEN c1
      ELSE [c1 EXCEPT !.cur = NULL, !.complete = FALSE]

\* reset_current_result() that clears the pointer before the cleanup
reset_current_result_clears_first(c, pResult, env) ==
  IF pResult # c.cur THEN c
  ELSE [cleanup_query(c, env) EXCEPT !.cur = NULL, !.complete = FALSE]

\* reset_current_result(pResult)
reset_current_result(c, pResult, env) ==
  IF pResult # c.cur THEN c
  ELSE
    LET c1 == cleanup_query(c, env)
    IN  IF Failed(c1) THEN c1
        ELSE [c1 EXCEPT !.cur = NULL, !.complete = FALSE]

\* disconnect() that also drops the tracked result
disconnect_drops_result(c) ==
  [PQfinish(c) EXCEPT !.pConn = NULL, !.cur = NULL, !.complete = FALSE]

\* disconnect() that forgets to empty the handle
disconnect_keeps_handle(c) ==
  PQfinish(c)

\* disconnect()
disconnect(c) ==
  [PQfinish(c) EXCEPT !.pConn = NULL]

\* is_current_result(pResult)
is_current_result(c, pResult) ==
  [c EXCEPT !.ret = IF c.cur = pResult THEN "true" ELSE "false"]

\* has_query()
has_query(c) ==
  [c EXCEPT !.ret = IF c.cur # NULL THEN "true" ELSE "false"]

\* is_transacting()
is_transacting(c) ==
  [c EXCEPT !.ret = IF c.transacting THEN "true" ELSE "false"]

\* set_transacting(transacting)
set_transacting(c, transacting) ==
  [c EXCEPT !.transacting = transacting]

\* PQresultStatus(res): PGRES_FATAL_ERROR for a null result
PQresultStatus(res) ==
  IF res = "NULL" THEN PGRES_FATAL_ERROR ELSE res

\* the rows loop running one row too far
RECURSIVE copy_rows_one_too_many(_, _, _, _, _)
copy_rows_one_too_many(c, i, n, putOk, text) ==
  IF i > n THEN c
  ELSE IF i < putOk \/ i = n
       THEN copy_rows_one_too_many(Call(c, "PQputCopyData", i, "1"),
                                   i + 1, n, putOk, text)
       ELSE conn_stop(Call(c, "PQputCopyData", i, "-1"), "Failed to put data", text)

\* the rows loop of copy_data from row i on: PQputCopyData succeeds for the
\* rows below putOk
RECURSIVE copy_rows(_, _, _, _, _)
copy_rows(c, i, n, putOk, text) ==
  IF i >= n THEN c
  ELSE IF i < putOk
       THEN copy_rows(Call(c, "PQputCopyData", i, "1"), i + 1, n, putOk, text)
       ELSE conn_stop(Call(c, "PQputCopyData", i, "-1"), "Failed to put data", text)

\* copy_data() that goes on whatever the status of the init result
copy_data_ignores_init_status(c, p, n, env) ==
  IF p = 0 THEN c
  ELSE
    LET pInit == IF c.pConn = NULL THEN "NULL" ELSE env.exec
        c2 == Call(Call(c, "PQexec", 0, pInit), "PQclear", 0, pInit)
        c3 == copy_rows(c2, 0, n, env.putOk, env.text)
    IN  IF Failed(c3) THEN c3
        ELSE Call(c3, "PQputCopyEnd", 0, "1")

\* copy_data() without the zero-column test
copy_data_no_empty_test(c, p, n, env) ==
  LET pInit == IF c.pConn = NULL THEN "NULL" ELSE env.exec
      c2 == Call(Call(c, "PQexec", 0, pInit), "PQclear", 0, pInit)
  IN  IF PQresultStatus(pInit) # PGRES_COPY_IN
      THEN conn_stop(c2, "Failed to initialise COPY", env.text)
      ELSE c2

\* copy_data(sql, df): p columns, n rows in the first column; env.exec and
\* env.final are the results of PQexec and PQgetResult ("NULL" or a status),
\* env.putOk the rows PQputCopyData accepts, env.copyEnd whether
\* PQputCopyEnd returns 1
copy_data(c, p, n, env) ==
  IF p = 0 THEN c
  ELSE
    LET pInit == IF c.pConn = NULL THEN "NULL" ELSE env.exec
        c1 == Call(c, "PQexec", 0, pInit)
        c2 == Call(c1, "PQclear", 0, pInit)
    IN  IF PQresultStatus(pInit) # PGRES_COPY_IN
        THEN conn_stop(c2, "Failed to initialise COPY", env.text)
        ELSE
          LET c3 == copy_rows(c2, 0, n, env.putOk, env.text)
          IN  IF Failed(c3) THEN c3
              ELSE
                LET c4 == Call(c3, "PQputCopyEnd", 0,
                               IF env.copyEnd THEN "1" ELSE "-1")
                IN  IF ~ env.copyEnd
                    THEN conn_stop(c4, "Failed to finish COPY", env.text)
                    ELSE
                      LET c5 == Call(c4, "PQgetResult", 0, env.final)
                          c6 == Call(c5, "PQclear", 0, env.final)
                      IN  IF PQresultStatus(env.final) # PGRES_COMMAND_OK
                          THEN conn_stop(c6, "COPY returned error", env.text)
                          ELSE c6

\* info() without the connection check
info_without_check(c, env) ==
  LET c2 == Call(c, "PQdb", 0, "")
      c3 == Call(c2, "PQhost", 0, "")
      c4 == Call(c3, "PQport", 0, "")
      c5 == Call(c4, "PQuser", 0, "")
      c6 == Call(c5, "PQprotocolVersion", 0, "")
      c7 == Call(c6, "PQserverVersion", 0, "")
      c8 == Call(c7, "PQbackendPID", 0, "")
  IN  [c8 EXCEPT !.ret = "List"]

\* info()
info(c, env) ==
  LET c1 == check_connection(c, env)
  IN  IF Failed(c1) THEN c1
      ELSE
        LET c2 == Call(c1, "PQdb", 0, "")
            c3 == Call(c2, "PQhost", 0, "")
            c4 == Call(c3, "PQport", 0, "")
            c5 == Call(c4, "PQuser", 0, "")
            c6 == Call(c5, "PQprotocolVersion", 0, "")
            c7 == Call(c6, "PQserverVersion", 0, "")
            c8 == Call(c7, "PQbackendPID", 0, "")
        IN  [c8 EXCEPT !.ret = "List"]

\* is_check_interrupts()
is_check_interrupts(c) ==
  [c EXCEPT !.ret = IF c.check_interrupts THEN "true" ELSE "false"]

\* get_null_string(): the CHARSXP "NULL"
get_null_string == "NULL"

\* Rf_mkCharCE(pq_escaped, CE_UTF8) then PQfreemem(pq_escaped); reading a null
\* pq_escaped is undefined behaviour and ends the process
mkChar_and_free(c, escaped, text) ==
  IF escaped
  THEN [Call(c, "PQfreemem", 0, "buffer") EXCEPT !.ret = text]
  ELSE [c EXCEPT !.crashed = TRUE]

\* quote_string() that escapes a missing value like any other
quote_string_escapes_missing(c, x, env) ==
  LET c1 == check_connection(c, env)
  IN  IF Failed(c1) THEN c1
      ELSE mkChar_and_free(
             Call(c1, "PQescapeLiteral", 0,
                  IF env.escaped THEN "buffer" ELSE "NULL"),
             env.escaped, EscapedLiteral)

\* quote_string(x): env.escaped says whether PQescapeLiteral returns a buffer
quote_string(c, x, env) ==
  LET c1 == check_connection(c, env)
  IN  IF Failed(c1) THEN c1
      ELSE IF x = NA_STRING THEN [c1 EXCEPT !.ret = get_null_string]
      ELSE mkChar_and_free(
             Call(c1, "PQescapeLiteral", 0,
                  IF env.escaped THEN "buffer" ELSE "NULL"),
             env.escaped, EscapedLiteral)

\* quote_identifier() without the connection check
quote_identifier_without_check(c, x, env) ==
  mkChar_and_free(
    Call(c, "PQescapeIdentifier", 0,
         IF env.escaped THEN "buffer" ELSE "NULL"),
    env.escaped, EscapedIdentifier)

\* quote_identifier(x)
quote_identifier(c, x, env) ==
  LET c1 == check_connection(c, env)
  IN  IF Failed(c1) THEN c1
      ELSE mkChar_and_free(
             Call(c1, "PQescapeIdentifier", 0,
                  IF env.escaped THEN "buffer" ELSE "NULL"),
             env.escaped, EscapedIdentifier)

\* conn()
conn(c) ==
  [c EXCEPT !.ret = IF c.pConn = NULL THEN "NULL" ELSE "conn"]

\* the constructor that fails without PQfinish
DbConnection_leaks(c, check_interrupts, env) ==
  LET c0 == [c EXCEPT !.cur = NULL, !.complete = FALSE, !.transacting = FALSE,
                      !.check_interrupts = check_interrupts]
      c1 == IF env.connect = "NULL"
            THEN [Call(c0, "PQconnectdbParams", 0, "NULL") EXCEPT !.pConn = NULL]
            ELSE [Call(c0, "PQconnectdbParams", 0, "conn")
                    EXCEPT !.pConn = CONN, !.status = env.connect,
                           !.allocated = @ + 1]
      c2 == Call(c1, "PQstatus", 0, PQstatus(c1))
  IN  IF PQstatus(c2) # CONNECTION_OK
      THEN stop(Call(c2, "PQerrorMessage", 0, env.text), env.text)
      ELSE [Call(c2, "PQsetClientEncoding", 0, "") EXCEPT !.encoding = "UTF-8"]

\* DbConnection(keys, values, check_interrupts): env.connect is what
\* PQconnectdbParams hands back ("NULL", or a connection with that status);
\* what PQsetClientEncoding returns is not looked at
DbConnection(c, check_interrupts, env) ==
  LET c0 == [c EXCEPT !.cur = NULL, !.complete = FALSE, !.transacting = FALSE,
                      !.check_interrupts = check_interrupts]
      c1 == IF env.connect = "NULL"
            THEN [Call(c0, "PQconnectdbParams", 0, "NULL") EXCEPT !.pConn = NULL]
            ELSE [Call(c0, "PQconnectdbParams", 0, "conn")
                    EXCEPT !.pConn = CONN, !.status = env.connect,
                           !.allocated = @ + 1]
      c2 == Call(c1, "PQstatus", 0, PQstatus(c1))
  IN  IF PQstatus(c2) # CONNECTION_OK
      THEN stop(PQfinish(Call(c2, "PQerrorMessage", 0, env.text)), env.text)
      ELSE
        [Call(c2, "PQsetClientEncoding", 0, "") EXCEPT !.encoding = "UTF-8"]

\* ~DbConnection()
Destructor(c) == disconnect(c)

\* ---- what libpq may answer ----
\* An answer libpq is never asked for is fixed, so that every drawn record is
\* a different run of the call.
ResetEnv ==
  {e \in [reset : {CONNECTION_OK, CONNECTION_BAD}, text : NativeErrors] :
     e.reset = CONNECTION_OK => e.text = CHOOSE t \in NativeErrors : TRUE}
CancelEnv ==
  {e \in [reset : {CONNECTION_OK, CONNECTION_BAD}, text : NativeErrors,
          getCancel : {NULL, CONN}, cancel : {0, 1}] :
     /\ e.reset = CONNECTION_OK => e.text = CHOOSE t \in NativeErrors : TRUE
     /\ e.reset = CONNECTION_BAD => (e.getCancel = CONN /\ e.cancel = 1)
     /\ e.getCancel = NULL => e.cancel = 1}
EscapeEnv ==
  {e \in [reset : {CONNECTION_OK, CONNECTION_BAD}, text : NativeErrors,
          escaped : BOOLEAN] :
     /\ e.reset = CONNECTION_OK => e.text = CHOOSE t \in NativeErrors : TRUE
     /\ e.reset = CONNECTION_BAD => e.escaped}
\* the runs of copy_data over n rows
CopyDefault ==
  [exec |-> PGRES_COPY_IN, putOk |-> MaxRows, copyEnd |-> TRUE,
   final |-> PGRES_COMMAND_OK, text |-> CHOOSE t \in NativeErrors : TRUE]
CopyEnv(n) ==
  {CopyDefault}
  \cup {[CopyDefault EXCEPT !.exec = x, !.text = t] :
          x \in {"NULL", PGRES_FATAL_ERROR}, t \in NativeErrors}
  \cup {[CopyDefault EXCEPT !.putOk = k, !.text = t] :
          k \in {j \in 0 .. MaxRows : j < n}, t \in NativeErrors}
  \cup {[CopyDefault EXCEPT !.copyEnd = FALSE, !.text = t] : t \in NativeErrors}
  \cup {[CopyDefault EXCEPT !.final = x, !.text = t] :
          x \in {"NULL", PGRES_FATAL_ERROR}, t \in NativeErrors}
ConnectEnv ==
  {e \in [connect : {"NULL", CONNECTION_OK, CONNECTION_BAD},
          text : NativeErrors] :
     e.connect = CONNECTION_OK => e.text = CHOOSE t \in NativeErrors : TRUE}

\* ---- the state machine ----
NoCall ==
  [op |-> "none", arg |-> <<>>, preCur |-> NULL, preComplete |-> FALSE,
   calls |-> <<>>, warns |-> <<>>, err |-> <<>>, ret |-> "void"]

Init ==
  /\ phase = "unborn"
  /\ pConn_ = NULL
  /\ pCurrentResult_ = NULL
  /\ transacting_ = FALSE
  /\ check_interrupts_ = FALSE
  /\ status = CONNECTION_BAD
  /\ encoding = "default"
  /\ allocated = 0
  /\ released = 0
  /\ pending = 0
  /\ complete = FALSE
  /\ last = NoCall

\* a method call `op(arg)` ran from the current state and ended in context c
Step(op, arg, c, ph) ==
  /\ phase' = IF c.crashed THEN "crashed" ELSE ph
  /\ pConn_' = c.pConn
  /\ pCurrentResult_' = c.cur
  /\ transacting_' = c.transacting
  /\ check_interrupts_' = c.check_interrupts
  /\ status' = c.status
  /\ encoding' = c.encoding
  /\ allocated' = c.allocated
  /\ released' = c.released
  /\ pending' = c.pending
  /\ complete' = c.complete
  /\ last' = [op |-> op, arg |-> arg, preCur |-> pCurrentResult_,
              preComplete |-> complete,
              calls |-> c.calls, warns |-> c.warns, err |-> c.err,
              ret |-> IF Failed(c) \/ c.crashed THEN "void" ELSE c.ret]

Construct ==
  /\ phase = "unborn"
  /\ \E ci \in BOOLEAN, env \in ConnectEnv :
       LET c == DbConnection(Ctx, ci, env)
       IN  Step("DbConnection", <<>>, c, IF Failed(c) THEN "failed" ELSE "live")

Destroy ==
  /\ phase = "live"
  /\ Step("~DbConnection", <<>>, Destructor(Ctx), "destroyed")

Disconnect ==
  /\ phase = "live"
  /\ Step("disconnect", <<>>, disconnect(Ctx), "live")

Conn ==
  /\ phase = "live"
  /\ Step("conn", <<>>, conn(Ctx), "live")

SetCurrentResult ==
  /\ phase = "live"
  /\ \E pResult \in {NULL} \cup Results, env \in CancelEnv, done \in BOOLEAN :
       /\ pResult = NULL => ~ done
       /\ Step("set_current_result", <<pResult>>,
               set_current_result(Ctx, pResult,
                                  [complete |-> done] @@ env), "live")

ResetCurrentResult ==
  /\ phase = "live"
  /\ \E pResult \in {NULL} \cup Results, env \in CancelEnv :
       Step("reset_current_result", <<pResult>>,
            reset_current_result(Ctx, pResult, env), "live")

CancelQuery ==
  /\ phase = "live"
  /\ \E env \in CancelEnv :
       Step("cancel_query", <<>>, cancel_query(Ctx, env), "live")

FinishQuery ==
  /\ phase = "live"
  /\ Step("finish_query", <<>>, finish_query(Ctx), "live")

IsCurrentResult ==
  /\ phase = "live"
  /\ \E pResult \in {NULL} \cup Results :
       Step("is_current_result", <<pResult>>,
            is_current_result(Ctx, pResult), "live")

HasQuery ==
  /\ phase = "live"
  /\ Step("has_query", <<>>, has_query(Ctx), "live")

\* with zero columns, or with no handle (PQexec(NULL) returns NULL), libpq's
\* answers are never looked at
CopyData ==
  /\ phase = "live"
  /\ \E p \in 0 .. MaxCols, n \in 0 .. MaxRows :
     \E env \in IF p = 0 \/ pConn_ = NULL THEN {CopyDefault} ELSE CopyEnv(n) :
       Step("copy_data", <<p, n>>, copy_data(Ctx, p, n, env), "live")

CheckConnection ==
  /\ phase = "live"
  /\ \E env \in ResetEnv :
       Step("check_connection", <<>>, check_connection(Ctx, env), "live")

Info ==
  /\ phase = "live"
  /\ \E env \in ResetEnv :
       Step("info", <<>>, info(Ctx, env), "live")

IsCheckInterrupts ==
  /\ phase = "live"
  /\ Step("is_check_interrupts", <<>>, is_check_interrupts(Ctx), "live")

QuoteString ==
  /\ phase = "live"
  /\ \E x \in {NA_STRING, SomeString}, env \in EscapeEnv :
       Step("quote_string", <<IF x = NA_STRING THEN 0 ELSE 1>>,
            quote_string(Ctx, x, env), "live")

QuoteIdentifier ==
  /\ phase = "live"
  /\ \E env \in EscapeEnv :
       Step("quote_identifier", <<1>>,
            quote_identifier(Ctx, SomeString, env), "live")

IsTransacting ==
  /\ phase = "live"
  /\ Step("is_transacting", <<>>, is_transacting(Ctx), "live")

SetTransacting ==
  /\ phase = "live"
  /\ \E t \in BOOLEAN :
       Step("set_transacting", <<IF t THEN 1 ELSE 0>>,
            set_transacting(Ctx, t), "live")

\* ---- the world outside the handle ----
\* the network or the server fails: PQstatus turns bad
StatusDegrades ==
  /\ phase = "live" /\ pConn_ # NULL /\ status = CONNECTION_OK
  /\ status' = CONNECTION_BAD
  /\ UNCHANGED <<phase, pConn_, pCurrentResult_, transacting_,
                 check_interrupts_, encoding, allocated, released, pending,
                 complete>>
  /\ last' = NoCall

\* the tracked result has fetched everything: its complete() turns true
ResultCompletes ==
  /\ phase = "live"
  /\ pCurrentResult_ # NULL /\ ~ complete
  /\ complete' = TRUE
  /\ UNCHANGED <<phase, pConn_, pCurrentResult_, transacting_,
                 check_interrupts_, status, encoding, allocated, released,
                 pending>>
  /\ last' = NoCall

\* the query of the tracked result delivers a result to the connection
ResultArrives ==
  /\ phase = "live" /\ pConn_ # NULL /\ pCurrentResult_ # NULL
  /\ pending < MaxPending
  /\ pending' = pending + 1
  /\ UNCHANGED <<phase, pConn_, pCurrentResult_, transacting_,
                 check_interrupts_, status, encoding, allocated, released,
                 complete>>
  /\ last' = NoCall

Next ==
  \/ Construct
  \/ Destroy
  \/ Disconnect
  \/ Conn
  \/ SetCurrentResult
  \/ ResetCurrentResult
  \/ CancelQuery
  \/ FinishQuery
  \/ IsCurrentResult
  \/ HasQuery
  \/ CopyData
  \/ CheckConnection
  \/ Info
  \/ IsCheckInterrupts
  \/ QuoteString
  \/ QuoteIdentifier
  \/ IsTransacting
  \/ SetTransacting
  \/ StatusDegrades
  \/ ResultCompletes
  \/ ResultArrives

Spec == Init /\ [][Next]_vars

\* ---- reading the record of a call ----
Count(calls, f) == Cardinality({i \in DOMAIN calls : calls[i].f = f})

Has(calls, entry) == \E i \in DOMAIN calls : calls[i] = entry

\* the connection check of the call ended with PQstatus saying CONNECTION_OK
CheckPassed(calls) ==
  /\ Count(calls, "PQstatus") >= 1
  /\ \A i \in DOMAIN calls :
       (calls[i].f = "PQstatus" /\ \A j \in DOMAIN calls :
                                     calls[j].f = "PQstatus" => j <= i)
       => calls[i].r = CONNECTION_OK

\* ---- C1 ----
\* set_current_result(A) with nothing tracked, then set_current_result(B)
\* with B different from A, both non-null
C1_Pair ==
  /\ last.op = "set_current_result"
  /\ last.preCur = NULL
  /\ last.arg[1] # NULL
  /\ last'.op = "set_current_result"
  /\ last'.arg[1] \notin {NULL, last.arg[1]}

\* C1 as claimed: on a live connection the two calls give exactly one
\* warning in total and leave B tracked, whatever libpq answers.
C1_Original ==
  [][(C1_Pair /\ pConn_ # NULL /\ status = CONNECTION_OK)
     => /\ Len(last.warns) + Len(last'.warns) = 1
        /\ pCurrentResult_' = last'.arg[1]]_vars

\* C1, amended: the two calls give the "Closing open result set" warning
\* exactly once; when the second call returns, B is tracked and the total is
\* one warning, or two when PQcancel reports failure (its error buffer is the
\* second warning); when the cleanup raises, the call fails after that one
\* warning and A stays tracked; with A complete nothing is cancelled, the call
\* returns and the total is one warning.
C1_OneClosingWarning ==
  [][C1_Pair
     => LET w == last'.warns
            cancelFailed == Has(last'.calls, Native("PQcancel", 0, "0"))
        IN  /\ last.warns = <<>>
            /\ last.err = <<>>
            /\ pCurrentResult_ = last.arg[1]
            /\ Len(w) >= 1
            /\ w[1] = ClosingWarning
            /\ \A i \in 2 .. Len(w) : w[i] # ClosingWarning
            /\ IF last'.err = <<>>
               THEN /\ pCurrentResult_' = last'.arg[1]
                    /\ Len(w) = IF cancelFailed THEN 2 ELSE 1
               ELSE /\ pCurrentResult_' = last.arg[1]
                    /\ Len(w) = 1
            /\ complete => /\ last'.err = <<>>
                           /\ Len(w) = 1
                           /\ Count(last'.calls, "PQcancel") = 0]_vars

\* a second, different result has replaced a tracked one with one warning
C1_Witness ==
  /\ last.op = "set_current_result"
  /\ last.preCur # NULL
  /\ last.arg[1] \notin {NULL, last.preCur}
  /\ last.err = <<>>
  /\ last.warns = <<ClosingWarning>>
  /\ pCurrentResult_ = last.arg[1]

\* ---- C2 ----
\* C2 as claimed: in every reachable state a tracked current result is not
\* complete.
C2_Original ==
  pCurrentResult_ # NULL => ~ complete

\* C2, amended: a tracked result may be complete; the connection keeps
\* tracking a complete result until reset_current_result(it) or
\* set_current_result(another) is called, and those calls then clear or
\* replace the pointer without a connection check, without a cancel and
\* without failing.
C2_CompleteStaysUntilReplaced ==
  [][(pCurrentResult_ # NULL /\ complete)
     => LET replaced ==
              \/ /\ last'.op = "reset_current_result"
                 /\ last'.arg[1] = pCurrentResult_
              \/ /\ last'.op = "set_current_result"
                 /\ last'.arg[1] # pCurrentResult_
        IN  IF replaced
            THEN /\ last'.err = <<>>
                 /\ Count(last'.calls, "PQstatus") = 0
                 /\ Count(last'.calls, "PQgetCancel") = 0
                 /\ Count(last'.calls, "PQcancel") = 0
                 /\ pCurrentResult_' =
                      IF last'.op = "set_current_result"
                      THEN last'.arg[1] ELSE NULL
            ELSE /\ pCurrentResult_' = pCurrentResult_
                 /\ complete' = complete]_vars

\* a complete tracked result was reset: no cancel, pointer cleared
C2_Witness ==
  /\ last.op = "reset_current_result"
  /\ last.preCur # NULL
  /\ last.preComplete
  /\ last.arg[1] = last.preCur
  /\ Count(last.calls, "PQcancel") = 0
  /\ pCurrentResult_ = NULL

\* ---- C3 ----
\* C3: has_query() is false right after a successful construction and right
\* after any reset_current_result(R) with R the tracked result.
C3_HasQueryFalse ==
  /\ (last.op = "DbConnection" /\ phase = "live")
     => has_query(Ctx).ret = "false"
  /\ (last.op = "reset_current_result" /\ last.arg[1] = last.preCur)
     => has_query(Ctx).ret = "false"

\* ---- C4 ----
\* C4: set_current_result(A) with A already tracked (A may be null) warns
\* nothing, calls nothing in libpq, does not fail and changes no state.
C4_SameResultNoOp ==
  [][(last'.op = "set_current_result" /\ last'.arg[1] = pCurrentResult_)
     => /\ last'.warns = <<>>
        /\ last'.calls = <<>>
        /\ last'.err = <<>>
        /\ UNCHANGED <<phase, pConn_, pCurrentResult_, transacting_,
                       check_interrupts_, status, encoding, allocated,
                       released, pending, complete>>]_vars

\* set_current_result(A) ran with A tracked, with results pending
C4_Witness ==
  /\ last.op = "set_current_result"
  /\ last.preCur # NULL
  /\ last.arg[1] = last.preCur
  /\ pCurrentResult_ = last.preCur
  /\ pending > 0
  /\ last.calls = <<>>

\* ---- C5 ----
C5_Shape(l) ==
  LET k == l.calls
  IN  IF k = <<>>
      THEN pConn_ = NULL /\ l.err = <<"Disconnected">>
      ELSE /\ pConn_ # NULL
           /\ k[1].f = "PQstatus"
           /\ k[1].r = CONNECTION_OK => (Len(k) = 1 /\ l.err = <<>>)
           /\ k[1].r # CONNECTION_OK
              => /\ Len(k) >= 3
                 /\ k[2] = Native("PQreset", 0, "")
                 /\ k[3].f = "PQstatus"
                 /\ k[3].r = status
                 /\ k[3].r = CONNECTION_OK => (Len(k) = 3 /\ l.err = <<>>)
                 /\ k[3].r # CONNECTION_OK
                    => /\ Len(k) = 4
                       /\ k[4].f = "PQerrorMessage"
                       /\ l.err = <<"Lost connection to database: " \o k[4].r>>

\* C5: check_connection fails with "Disconnected" and no native call when
\* there is no handle, returns after one PQstatus when the status is OK, and
\* otherwise resets exactly once and then returns or fails with "Lost
\* connection to database: <native text>"; no call of any method resets more
\* than once.
C5_OneReset ==
  /\ last.op = "check_connection" => C5_Shape(last)
  /\ Count(last.calls, "PQreset") <= 1

\* check_connection reset once and failed
C5_Witness ==
  /\ last.op = "check_connection"
  /\ Count(last.calls, "PQreset") = 1
  /\ last.err # <<>>

\* ---- C6 ----
\* C6: a constructed handle's native connection is released exactly once:
\* it is released iff the handle is empty, a destroyed handle is empty, and
\* disconnect() and the destructor make one PQfinish call, never fail and
\* leave the handle empty.
C6_ReleasedOnce ==
  /\ phase \in {"live", "destroyed", "crashed"}
     => /\ allocated = 1
        /\ released = IF pConn_ = NULL THEN 1 ELSE 0
  /\ phase = "destroyed" => pConn_ = NULL
  /\ last.op \in {"disconnect", "~DbConnection"}
     => /\ last.err = <<>>
        /\ pConn_ = NULL
        /\ Len(last.calls) = 1
        /\ last.calls[1].f = "PQfinish"

\* the handle was destroyed after an earlier disconnect()
C6_Witness ==
  /\ phase = "destroyed"
  /\ last.op = "~DbConnection"
  /\ last.calls = <<Native("PQfinish", 0, "NULL")>>
  /\ released = 1

\* ---- C7 ----
\* C7: when the connection status after PQconnectdbParams is not OK the
\* constructor fails with the text of PQerrorMessage, read before the one
\* PQfinish call; every connection handed out is released, no handle lives
\* on and the client encoding is not set.
C7_FailedConstruction ==
  (last.op = "DbConnection" /\ last.calls[2].r # CONNECTION_OK)
  => /\ phase = "failed"
     /\ Len(last.calls) = 4
     /\ last.calls[3].f = "PQerrorMessage"
     /\ last.calls[4].f = "PQfinish"
     /\ last.err = <<last.calls[3].r>>
     /\ released = allocated
     /\ Count(last.calls, "PQsetClientEncoding") = 0
     /\ encoding = "default"

\* a connection was handed out with a bad status and released
C7_Witness ==
  /\ last.op = "DbConnection"
  /\ phase = "failed"
  /\ allocated = 1
  /\ released = 1
  /\ last.err # <<>>

\* ---- C8 ----
\* C8: copy_data on a table with columns whose statement does not give
\* PGRES_COPY_IN clears the init result and fails with "Failed to initialise
\* COPY: <native text>" without any PQputCopyData, PQputCopyEnd or
\* PQgetResult call.
C8_InitFailure ==
  (last.op = "copy_data" /\ last.arg[1] >= 1)
  => /\ Len(last.calls) >= 2
     /\ last.calls[1].f = "PQexec"
     /\ last.calls[1].r # PGRES_COPY_IN
        => /\ Len(last.calls) = 3
           /\ last.calls[2] = Native("PQclear", 0, last.calls[1].r)
           /\ last.calls[3].f = "PQerrorMessage"
           /\ last.err = <<"Failed to initialise COPY: " \o last.calls[3].r>>
           /\ Count(last.calls, "PQputCopyData") = 0
           /\ Count(last.calls, "PQputCopyEnd") = 0
           /\ Count(last.calls, "PQgetResult") = 0

\* copy_data of rows failed at the init statement
C8_Witness ==
  /\ last.op = "copy_data"
  /\ last.arg[1] >= 1
  /\ last.arg[2] >= 1
  /\ last.calls[1] = Native("PQexec", 0, PGRES_FATAL_ERROR)
  /\ last.err # <<>>

\* ---- C9 ----
\* C9: copy_data with zero columns makes no native call, does not fail and
\* changes no state, in every state of the connection.
C9_ZeroColumns ==
  [][(last'.op = "copy_data" /\ last'.arg[1] = 0)
     => /\ last'.calls = <<>>
        /\ last'.warns = <<>>
        /\ last'.err = <<>>
        /\ UNCHANGED <<phase, pConn_, pCurrentResult_, transacting_,
                       check_interrupts_, status, encoding, allocated,
                       released, pending, complete>>]_vars

\* copy_data with zero columns returned on a disconnected handle
C9_Witness ==
  /\ last.op = "copy_data"
  /\ last.arg[1] = 0
  /\ pConn_ = NULL
  /\ last.err = <<>>

\* ---- C10 ----
\* C10 as claimed: in every connection state quote_string of a missing value
\* returns NULL without native escaping, and of another value escapes once
\* and frees the buffer.
C10_Original ==
  last.op = "quote_string"
  => /\ last.arg = <<0>>
        => /\ last.ret = get_null_string
           /\ Count(last.calls, "PQescapeLiteral") = 0
     /\ last.arg = <<1>>
        => /\ Count(last.calls, "PQescapeLiteral") = 1
           /\ phase # "crashed" => Count(last.calls, "PQfreemem") = 1

\* C10, amended: quote_string first checks the connection; when the check
\* fails it raises and never escapes; when it passes, a missing value gives
\* NULL without native escaping, and another value is escaped exactly once
\* and the buffer, when libpq returned one, is freed exactly once before the
\* escaped text is returned.
C10_QuoteString ==
  last.op = "quote_string"
  => IF ~ CheckPassed(last.calls)
     THEN /\ last.err # <<>>
          /\ last.ret = "void"
          /\ Count(last.calls, "PQescapeLiteral") = 0
     ELSE /\ last.err = <<>>
          /\ last.arg = <<0>>
             => /\ last.ret = get_null_string
                /\ Count(last.calls, "PQescapeLiteral") = 0
                /\ Count(last.calls, "PQfreemem") = 0
          /\ last.arg = <<1>>
             => /\ Count(last.calls, "PQescapeLiteral") = 1
                /\ IF Has(last.calls, Native("PQescapeLiteral", 0, "buffer"))
                   THEN /\ last.ret = EscapedLiteral
                        /\ Count(last.calls, "PQfreemem") = 1
                        /\ last.calls[Len(last.calls)].f = "PQfreemem"
                        /\ phase = "live"
                   ELSE phase = "crashed"

\* quote_string of a missing value returned NULL after a reset
C10_Witness ==
  /\ last.op = "quote_string"
  /\ last.arg = <<0>>
  /\ last.ret = get_null_string
  /\ Count(last.calls, "PQreset") = 1

CleanupRan(l) ==
  \/ l.op = "reset_current_result" /\ l.arg[1] = l.preCur
  \/ l.op = "set_current_result" /\ l.preCur # NULL /\ l.arg[1] # l.preCur

\* C12: whenever set_current_result or reset_current_result runs
\* cleanup_query, a cancel is attempted iff a result was tracked and not
\* complete, and in every case the pending results are then drained, so that
\* none is left.
C12_CleanupDrains ==
  CleanupRan(last)
  => /\ (Count(last.calls, "PQgetCancel") >= 1 \/ last.err # <<>>)
        <=> (last.preCur # NULL /\ ~ last.preComplete)
     /\ Has(last.calls, Native("PQgetResult", 0, "NULL"))
     /\ pending = 0

\* ---- C13 ----
\* the exec, put, end and get-result steps of a call log, in order
CopySteps(k) ==
  SelectSeq(k, LAMBDA e : e.f \in {"PQexec", "PQputCopyData", "PQputCopyEnd",
                                   "PQgetResult"})

\* err is msg followed by the native error text
ConnStopped(err, msg) ==
  \E t \in NativeErrors : err = <<msg \o ": " \o t>>

\* C13: copy_data of a data frame with columns issues PQexec, then
\* PQputCopyData for rows 0, 1, ..., n-1 in ascending order, once each, then
\* PQputCopyEnd, then PQgetResult, and nothing else in between; it stops at
\* the first step that fails, with that step's message, and issues no later
\* step.
C13_CopyOrder ==
  (last.op = "copy_data" /\ last.arg[1] >= 1)
  => LET s == CopySteps(last.calls)
         n == last.arg[2]
         m == Count(last.calls, "PQputCopyData")
     IN  /\ Len(s) >= 1
         /\ s[1].f = "PQexec"
         /\ m <= n
         /\ Len(s) >= m + 1
         /\ \A i \in 1 .. m :
              /\ s[i + 1].f = "PQputCopyData"
              /\ s[i + 1].a = i - 1
              /\ i < m => s[i + 1].r = "1"
         /\ \/ /\ s[1].r # PGRES_COPY_IN
               /\ Len(s) = 1
               /\ ConnStopped(last.err, "Failed to initialise COPY")
            \/ /\ s[1].r = PGRES_COPY_IN
               /\ m >= 1
               /\ s[m + 1].r # "1"
               /\ Len(s) = m + 1
               /\ ConnStopped(last.err, "Failed to put data")
            \/ /\ s[1].r = PGRES_COPY_IN
               /\ m = n
               /\ m >= 1 => s[m + 1].r = "1"
               /\ Len(s) >= n + 2
               /\ s[n + 2].f = "PQputCopyEnd"
               /\ \/ /\ s[n + 2].r # "1"
                     /\ Len(s) = n + 2
                     /\ ConnStopped(last.err, "Failed to finish COPY")
                  \/ /\ s[n + 2].r = "1"
                     /\ Len(s) = n + 3
                     /\ s[n + 3].f = "PQgetResult"
                     /\ IF s[n + 3].r = PGRES_COMMAND_OK
                        THEN last.err = <<>>
                        ELSE ConnStopped(last.err, "COPY returned error")

\* a copy of at least two rows went through
C13_Witness ==
  /\ last.op = "copy_data"
  /\ last.arg[1] >= 1
  /\ last.arg[2] >= 2
  /\ last.err = <<>>

\* ---- C14 ----
\* the warning for a replaced result is among the warnings
Warned(warns, w) ==
  \E i \in 1 .. Len(warns) : warns[i] = w

\* C14: set_current_result(NULL) while a result A is tracked gives no
\* "Closing open result set" warning, cleans up A's query (a cancel iff A is
\* not complete, then the drain) and ends with no result tracked; the warning
\* is given iff the previous result is not null, the candidate is not null and
\* the two differ.
C14_NullCandidate ==
  /\ (last.op = "set_current_result" /\ last.arg[1] = NULL
      /\ last.preCur # NULL)
     => /\ ~ Warned(last.warns, ClosingWarning)
        /\ (Count(last.calls, "PQgetCancel") >= 1 \/ last.err # <<>>)
           <=> ~ last.preComplete
        /\ Has(last.calls, Native("PQgetResult", 0, "NULL"))
        /\ pCurrentResult_ = NULL
  /\ last.op = "set_current_result"
     => (Warned(last.warns, ClosingWarning)
         <=> (last.preCur # NULL /\ last.arg[1] # NULL
              /\ last.arg[1] # last.preCur))

\* ---- C15 ----
\* C15: when cancel_query has its cancel handle and PQcancel reports failure,
\* cancel_query gives the warning and returns without an error, and the
\* tracked result, the transacting flag and the native handle are what they
\* were; cancel_query fails only when check_connection fails or PQgetCancel
\* returns NULL.
C15_BestEffort ==
  [][last'.op = "cancel_query"
     => LET k == last'.calls
        IN  /\ Has(k, Native("PQcancel", 0, "0"))
               => /\ last'.err = <<>>
                  /\ last'.warns = <<"errbuf">>
                  /\ CheckPassed(k)
                  /\ UNCHANGED <<pCurrentResult_, complete, transacting_,
                                 pConn_, allocated, released>>
            /\ last'.err # <<>>
               => \/ /\ ~ CheckPassed(k)
                     /\ Count(k, "PQgetCancel") = 0
                     /\ \/ last'.err = <<"Disconnected">>
                        \/ ConnStopped(last'.err, "Lost connection to database")
                  \/ /\ CheckPassed(k)
                     /\ k[Len(k)] = Native("PQgetCancel", 0, "NULL")
                     /\ last'.err =
                          <<"Connection error detected via PQgetCancel()">>
            /\ (CheckPassed(k) /\ ~ Has(k, Native("PQgetCancel", 0, "NULL")))
               => last'.err = <<>>]_vars

\* PQcancel was refused while a result was tracked
C15_Witness ==
  /\ last.op = "cancel_query"
  /\ Has(last.calls, Native("PQcancel", 0, "0"))
  /\ last.warns # <<>>
  /\ pCurrentResult_ # NULL

\* ---- C16 ----
\* how many cancel handles, results and escaped buffers a call log obtains
Obtained(k) ==
  [cancel |-> Len(SelectSeq(k, LAMBDA e : e.f = "PQgetCancel" /\ e.r # "NULL")),
   result |-> Len(SelectSeq(k, LAMBDA e : /\ e.f \in {"PQexec", "PQgetResult"}
                                          /\ e.r # "NULL")),
   buffer |-> Len(SelectSeq(k, LAMBDA e :
                     /\ e.f \in {"PQescapeLiteral", "PQescapeIdentifier"}
                     /\ e.r # "NULL"))]

\* how many of them it releases
Freed(k) ==
  [cancel |-> Count(k, "PQfreeCancel"),
   result |-> Len(SelectSeq(k, LAMBDA e : e.f = "PQclear" /\ e.r # "NULL")),
   buffer |-> Count(k, "PQfreemem")]

\* C16: when cancel_query, copy_data, finish_query, quote_string or
\* quote_identifier returns or raises, every cancel handle, result and
\* escaped buffer the call obtained from libpq has been released exactly
\* once, and none is released before it is obtained.
C16_PerCallResources ==
  last.op \in {"cancel_query", "copy_data", "finish_query", "quote_string",
               "quote_identifier"}
  => /\ Freed(last.calls) = Obtained(last.calls)
     /\ \A i \in 0 .. Len(last.calls) :
          LET o == Obtained(SubSeq(last.calls, 1, i))
              f == Freed(SubSeq(last.calls, 1, i))
          IN  /\ f.cancel <= o.cancel /\ o.cancel <= f.cancel + 1
              /\ f.result <= o.result /\ o.result <= f.result + 1
              /\ f.buffer <= o.buffer /\ o.buffer <= f.buffer + 1

\* cancel_query released its handle after PQcancel was refused
C16_Witness ==
  /\ last.op = "cancel_query"
  /\ Has(last.calls, Native("PQcancel", 0, "0"))
  /\ Count(last.calls, "PQfreeCancel") = 1

\* ---- C17 ----
\* C17: reset_current_result(candidate) with a candidate that is not the
\* tracked result (foreign, NULL while a result is tracked, or non-NULL while
\* none is tracked) does nothing: no native call (no check, cancel or drain),
\* no warning, no error, and no part of the state changes.
C17_ForeignResetNoOp ==
  [][(last'.op = "reset_current_result" /\ last'.arg[1] # pCurrentResult_)
     => /\ last'.calls = <<>>
        /\ last'.warns = <<>>
        /\ last'.err = <<>>
        /\ UNCHANGED <<phase, pConn_, pCurrentResult_, transacting_,
                       check_interrupts_, status, encoding, allocated,
                       released, pending, complete>>]_vars

\* a foreign candidate was offered while an incomplete result with pending
\* native results was tracked
C17_Witness ==
  /\ last.op = "reset_current_result"
  /\ last.arg[1] \notin {NULL, last.preCur}
  /\ last.preCur # NULL
  /\ ~ last.preComplete
  /\ pending > 0

\* ---- C18 ----
\* C18 as claimed: info() leaves the native connection's state, the tracked
\* result and the transacting flag as they were, in every state, a degraded
\* connection included, whether it returns or fails.
C18_Original ==
  [][last'.op = "info"
     => UNCHANGED <<pConn_, status, pending, released, pCurrentResult_,
                    complete, transacting_>>]_vars

\* C18, amended: info() first runs check_connection, which on a degraded
\* connection performs exactly one PQreset (the native status becomes
\* whatever the reset leaves and pending results are discarded); on a
\* connection that is OK, or with no handle, info() changes nothing; in every
\* case the native handle, the tracked result and the transacting flag are
\* what they were, whether info() returns or fails.
C18_InfoOnlyResets ==
  [][last'.op = "info"
     => LET k == last'.calls
        IN  /\ UNCHANGED <<pConn_, pCurrentResult_, complete, transacting_,
                           check_interrupts_, encoding, allocated, released>>
            /\ pConn_ = NULL
               => /\ k = <<>> /\ last'.err = <<"Disconnected">>
                  /\ UNCHANGED <<status, pending>>
            /\ (pConn_ # NULL /\ status = CONNECTION_OK)
               => /\ Count(k, "PQreset") = 0 /\ last'.err = <<>>
                  /\ k[1].f = "PQstatus"
                  /\ UNCHANGED <<status, pending>>
            /\ (pConn_ # NULL /\ status # CONNECTION_OK)
               => /\ Count(k, "PQreset") = 1
                  /\ k[1].f = "PQstatus" /\ k[2].f = "PQreset"
                  /\ pending' = 0
                  /\ last'.err = <<>> <=> status' = CONNECTION_OK]_vars

\* info() returned its record after resetting a degraded connection
C18_Witness ==
  /\ last.op = "info"
  /\ Count(last.calls, "PQreset") = 1
  /\ last.err = <<>>
  /\ last.ret = "List"

\* ---- C19 ----
\* C19: when set_current_result or reset_current_result fails, the failure is
\* that of the cleanup ("Disconnected", "Lost connection to database: ..." or
\* the null cancel handle), and the tracked result is exactly the one tracked
\* before the call.
C19_FailureKeepsResult ==
  (last.op \in {"set_current_result", "reset_current_result"}
   /\ last.err # <<>>)
  => /\ pCurrentResult_ = last.preCur
     /\ complete = last.preComplete
     /\ last.preCur # NULL
     /\ ~ last.preComplete
     /\ \/ last.err = <<"Disconnected">>
        \/ ConnStopped(last.err, "Lost connection to database")
        \/ last.err = <<"Connection error detected via PQgetCancel()">>

\* set_current_result of another result failed in its cleanup
C19_Witness ==
  /\ last.op = "set_current_result"
  /\ last.err # <<>>
  /\ last.arg[1] # NULL
  /\ pCurrentResult_ = last.preCur

\* ---- C20 ----
\* C20: disconnect() and the destructor make one PQfinish call and nothing
\* else (no cancel, no drain), empty the native handle and leave the tracked
\* result and the transacting flag alone; the tracked result changes only in
\* set_current_result and reset_current_result.
C20_OnlyTheHandle ==
  [][/\ last'.op \in {"disconnect", "~DbConnection"}
        => /\ Len(last'.calls) = 1
           /\ last'.calls[1].f = "PQfinish"
           /\ last'.warns = <<>> /\ last'.err = <<>>
           /\ pConn_' = NULL
           /\ UNCHANGED <<pCurrentResult_, complete, transacting_,
                          check_interrupts_, encoding, status, allocated>>
     /\ pCurrentResult_' # pCurrentResult_
        => last'.op \in {"set_current_result", "reset_current_result"}]_vars

\* disconnect() ran while an incomplete result was tracked
C20_Witness ==
  /\ last.op = "disconnect"
  /\ pCurrentResult_ # NULL
  /\ ~ complete
  /\ pConn_ = NULL
  /\ released = 1

====
